---- MODULE Spec2Model ----
(***************************************************************************)
(* Model of src/src/memory.ts: the VirtualMemory address space (block map, *)
(* name table, allocator, bounds-checked region I/O, scalar writers) and   *)
(* the string codec writeString / readString built on top of it.           *)
(*                                                                         *)
(* A byte buffer (Uint8Array) is a sequence of integers in 0..255; byte i  *)
(* of the buffer (0-based) is element i+1 of the sequence.  The block map  *)
(* #memory is a function from live addresses to byte buffers.  The name    *)
(* table #mappedAddressNames is a sequence of [name, address] entries in   *)
(* insertion order, which is the iteration order of a JavaScript Map.      *)
(* Numbers are integers: sizes, offsets and lengths that are fractions or  *)
(* NaN are outside the model.                                              *)
(***************************************************************************)
EXTENDS Integers, Sequences, FiniteSets, TLC

VARIABLES capacity,           \* #capacity
          memory,             \* #memory : address -> Uint8Array
          names,              \* #mappedAddressNames, in insertion order
          occupiedAddresses,  \* #occupiedAddresses
          last,               \* the last call: operation, arguments, outcome
          returned            \* history: addresses alloc has returned since
                              \* construction or the last erase

vars == <<capacity, memory, names, occupiedAddresses, last, returned>>

(***************************************************************************)
(* Bounds of the model.                                                    *)
(***************************************************************************)
MaxCap == 3

BigCap == 4

Uint32Cap == 8

MaxAddr == 2

MaxStrLen == 2

(***************************************************************************)
(* Outcomes.  res is "value", "true", "false", "null", "void" or the       *)
(* error that was thrown; val is the returned number, bytes or string as   *)
(* a sequence.                                                             *)
(***************************************************************************)
ErrAllocSize == "RangeError: Memory allocation size must be greater than 0"

ErrAllocCapacity == "RangeError: Memory allocation exceeds the memory capacity"

ErrVarExists == "Error: Variable name already exists"

ErrReadOffset == "RangeError: Invalid memory read offset"

ErrReadLength == "RangeError: Invalid memory read length"

ErrWriteType == "TypeError: Invalid memory write data type"

ErrWriteOffset == "RangeError: Invalid memory write offset"

ErrWriteLength == "RangeError: Invalid memory write data length"

ErrCopySrcOffset == "RangeError: Invalid memory copy source offset"

ErrCopyDestOffset == "RangeError: Invalid memory copy destination offset"

ErrCopyLength == "RangeError: Invalid memory copy length"

ErrFillOffset == "RangeError: Invalid memory fill offset"

ErrFillLength == "RangeError: Invalid memory fill length"

ErrUint32ArrayLength ==
  "RangeError: byte length of Uint32Array should be a multiple of 4"

Results == {"value", "true", "false", "null", "void"}

Threw(r) == r \notin Results

Out(r, v, m, n, occ) ==
  [res |-> r, val |-> v, memory |-> m, names |-> n, occupied |-> occ]

(***************************************************************************)
(* Helpers on buffers and maps.                                            *)
(***************************************************************************)
EmptyMap == [a \in {} |-> <<>>]

ZerosUninitialised(n) == [i \in 1..n |-> 255]

Zeros(n) == [i \in 1..n |-> 0]

RECURSIVE SumLen(_, _)
SumLen(mem, S) ==
  IF S = {} THEN 0
  ELSE LET a == CHOOSE x \in S : TRUE
       IN Len(mem[a]) + SumLen(mem, S \ {a})

size(mem) == Cardinality(DOMAIN mem)

byteLength(mem) == SumLen(mem, DOMAIN mem)

has(mem, address) == address \in DOMAIN mem

MapSet(mem, address, buf) ==
  [a \in DOMAIN mem \cup {address} |-> IF a = address THEN buf ELSE mem[a]]

MapDelete(mem, address) == [a \in DOMAIN mem \ {address} |-> mem[a]]

RECURSIVE MaxOf(_)
MaxOf(s) ==
  IF Len(s) = 1 THEN s[1]
  ELSE LET m == MaxOf(Tail(s)) IN IF s[1] > m THEN s[1] ELSE m

(***************************************************************************)
(* Name table.                                                             *)
(***************************************************************************)
BoundNames(n) == {n[i].name : i \in 1..Len(n)}

hasVar(n, name) == name \in BoundNames(n)

NameIndex(n, name) == CHOOSE i \in 1..Len(n) : n[i].name = name

NameGet(n, name) == n[NameIndex(n, name)].address

RemoveAt(s, i) == SubSeq(s, 1, i - 1) \o SubSeq(s, i + 1, Len(s))

(***************************************************************************)
(* alloc                                                                   *)
(***************************************************************************)
ProbeNone(mem, address) == address

RECURSIVE Probe(_, _)
Probe(mem, address) ==
  IF has(mem, address) THEN Probe(mem, address + 1) ELSE address

AllocAddressFromZero(mem, occ) == Probe(mem, 0)

AllocAddress(mem, occ) ==
  Probe(mem, IF Len(occ) > 0 THEN MaxOf(occ) + 1 ELSE size(mem))

SizeInvalidNegativeOnly(sz) == sz < 0

SizeInvalid(sz) == sz <= 0

CapacityExceededIgnoringSize(mem, cap, sz) == byteLength(mem) > cap

CapacityExceeded(mem, cap, sz) == byteLength(mem) + sz > cap

alloc(mem, n, occ, cap, sz) ==
  IF SizeInvalid(sz) THEN Out(ErrAllocSize, <<>>, mem, n, occ)
  ELSE IF CapacityExceeded(mem, cap, sz)
       THEN Out(ErrAllocCapacity, <<>>, mem, n, occ)
  ELSE LET address == AllocAddress(mem, occ)
       IN Out("value", <<address>>, MapSet(mem, address, Zeros(sz)), n, occ)

(***************************************************************************)
(* setVar, free, freeVar, erase                                            *)
(***************************************************************************)
setVar(mem, n, occ, name, address) ==
  IF hasVar(n, name) THEN Out(ErrVarExists, <<>>, mem, n, occ)
  ELSE Out("void", <<>>, mem, Append(n, [name |-> name, address |-> address]), occ)

DropEveryName(n, address) == SelectSeq(n, LAMBDA b : b.address # address)

DropFirstName(n, address) ==
  LET hits == {i \in 1..Len(n) : n[i].address = address}
  IN IF hits = {} THEN n
     ELSE RemoveAt(n, CHOOSE i \in hits : \A j \in hits : i <= j)

FilterOccupied(occ, address) == SelectSeq(occ, LAMBDA x : x # address)

freeUnchecked(mem, n, occ, address) ==
  Out("true", <<>>, MapDelete(mem, address), DropFirstName(n, address),
      FilterOccupied(occ, address))

free(mem, n, occ, address) ==
  IF ~has(mem, address) THEN Out("false", <<>>, mem, n, occ)
  ELSE Out("true", <<>>, MapDelete(mem, address), DropFirstName(n, address),
           FilterOccupied(occ, address))

freeVar(mem, n, occ, name) ==
  IF ~hasVar(n, name) THEN Out("false", <<>>, mem, n, occ)
  ELSE free(mem, n, occ, NameGet(n, name))

eraseKeepNames(mem, n, occ) == Out("void", <<>>, EmptyMap, n, <<>>)

erase(mem, n, occ) == Out("void", <<>>, EmptyMap, <<>>, <<>>)

(***************************************************************************)
(* Region I/O: read, write, copy, fill, clear.  An optional length is the  *)
(* empty sequence when omitted and <<length>> when given.  A data argument *)
(* is [type, bytes]; type "Uint8Array" is a byte buffer, anything else is  *)
(* a value that fails the instanceof test.                                 *)
(***************************************************************************)
Buf(bytes) == [type |-> "Uint8Array", bytes |-> bytes]

IsUint8Array(data) == data.type = "Uint8Array"

subarrayInclusiveEnd(buf, begin, end) == SubSeq(buf, begin + 1, end - 1)

subarray(buf, begin, end) == SubSeq(buf, begin + 1, end)

TypedArraySet(buf, bytes, offset) ==
  [i \in 1..Len(buf) |->
     IF i > offset /\ i <= offset + Len(bytes) THEN bytes[i - offset] ELSE buf[i]]

ToUint8(value) == value % 256

TypedArrayFillToEnd(buf, value, start, end) ==
  [i \in 1..Len(buf) |-> IF i > start THEN ToUint8(value) ELSE buf[i]]

TypedArrayFill(buf, value, start, end) ==
  [i \in 1..Len(buf) |-> IF i > start /\ i <= end THEN ToUint8(value) ELSE buf[i]]

OffsetInvalid(offset, blockLength) == offset < 0 \/ offset >= blockLength

LengthInvalidAtEnd(length, offset, blockLength) ==
  length <= 0 \/ offset + length >= blockLength

LengthInvalid(length, offset, blockLength) ==
  length <= 0 \/ offset + length > blockLength

read(mem, n, occ, address, lengthOpt, offset) ==
  IF ~has(mem, address) THEN Out("null", <<>>, mem, n, occ)
  ELSE LET block == mem[address]
           length == IF lengthOpt = <<>> THEN Len(block) ELSE lengthOpt[1]
       IN IF OffsetInvalid(offset, Len(block))
          THEN Out(ErrReadOffset, <<>>, mem, n, occ)
          ELSE IF LengthInvalid(length, offset, Len(block))
          THEN Out(ErrReadLength, <<>>, mem, n, occ)
          ELSE Out("value",
                   IF length = Len(block) /\ offset = 0 THEN block
                   ELSE subarray(block, offset, offset + length),
                   mem, n, occ)

writeTypeCheckFirst(mem, n, occ, address, data, offset) ==
  IF ~IsUint8Array(data) THEN Out(ErrWriteType, <<>>, mem, n, occ)
  ELSE IF ~has(mem, address) THEN Out("false", <<>>, mem, n, occ)
  ELSE LET block == mem[address]
       IN IF OffsetInvalid(offset, Len(block))
          THEN Out(ErrWriteOffset, <<>>, mem, n, occ)
          ELSE IF LengthInvalid(Len(data.bytes), offset, Len(block))
          THEN Out(ErrWriteLength, <<>>, mem, n, occ)
          ELSE Out("true", <<>>,
                   MapSet(mem, address, TypedArraySet(block, data.bytes, offset)),
                   n, occ)

write(mem, n, occ, address, data, offset) ==
  IF ~has(mem, address) THEN Out("false", <<>>, mem, n, occ)
  ELSE IF ~IsUint8Array(data) THEN Out(ErrWriteType, <<>>, mem, n, occ)
  ELSE LET block == mem[address]
       IN IF OffsetInvalid(offset, Len(block))
          THEN Out(ErrWriteOffset, <<>>, mem, n, occ)
          ELSE IF LengthInvalid(Len(data.bytes), offset, Len(block))
          THEN Out(ErrWriteLength, <<>>, mem, n, occ)
          ELSE Out("true", <<>>,
                   MapSet(mem, address, TypedArraySet(block, data.bytes, offset)),
                   n, occ)

copyByteByByte(mem, n, occ, srcAddress, destAddress, length, srcOffset, destOffset) ==
  IF ~has(mem, srcAddress) \/ ~has(mem, destAddress)
  THEN Out("false", <<>>, mem, n, occ)
  ELSE LET srcMemory == mem[srcAddress]
           destMemory == mem[destAddress]
       IN IF OffsetInvalid(srcOffset, Len(srcMemory))
          THEN Out(ErrCopySrcOffset, <<>>, mem, n, occ)
          ELSE IF OffsetInvalid(destOffset, Len(destMemory))
          THEN Out(ErrCopyDestOffset, <<>>, mem, n, occ)
          ELSE IF \/ length <= 0
                  \/ srcOffset + length > Len(srcMemory)
                  \/ destOffset + length > Len(destMemory)
          THEN Out(ErrCopyLength, <<>>, mem, n, occ)
          ELSE Out("true", <<>>,
                   MapSet(mem, destAddress,
                          TypedArraySet(destMemory,
                                        IF srcAddress = destAddress /\ destOffset > srcOffset
                                        THEN [k \in 1..length |->
                                                srcMemory[srcOffset + 1
                                                          + ((k - 1) % (destOffset - srcOffset))]]
                                        ELSE subarray(srcMemory, srcOffset, srcOffset + length),
                                        destOffset)),
                   n, occ)

copy(mem, n, occ, srcAddress, destAddress, length, srcOffset, destOffset) ==
  IF ~has(mem, srcAddress) \/ ~has(mem, destAddress)
  THEN Out("false", <<>>, mem, n, occ)
  ELSE LET srcMemory == mem[srcAddress]
           destMemory == mem[destAddress]
       IN IF OffsetInvalid(srcOffset, Len(srcMemory))
          THEN Out(ErrCopySrcOffset, <<>>, mem, n, occ)
          ELSE IF OffsetInvalid(destOffset, Len(destMemory))
          THEN Out(ErrCopyDestOffset, <<>>, mem, n, occ)
          ELSE IF \/ length <= 0
                  \/ srcOffset + length > Len(srcMemory)
                  \/ destOffset + length > Len(destMemory)
          THEN Out(ErrCopyLength, <<>>, mem, n, occ)
          ELSE Out("true", <<>>,
                   MapSet(mem, destAddress,
                          TypedArraySet(destMemory,
                                        subarray(srcMemory, srcOffset, srcOffset + length),
                                        destOffset)),
                   n, occ)

fill(mem, n, occ, address, value, length, offset) ==
  IF ~has(mem, address) THEN Out("false", <<>>, mem, n, occ)
  ELSE LET block == mem[address]
       IN IF OffsetInvalid(offset, Len(block))
          THEN Out(ErrFillOffset, <<>>, mem, n, occ)
          ELSE IF LengthInvalid(length, offset, Len(block))
          THEN Out(ErrFillLength, <<>>, mem, n, occ)
          ELSE Out("true", <<>>,
                   MapSet(mem, address,
                          TypedArrayFill(block, value, offset, offset + length)),
                   n, occ)

clear(mem, n, occ, address, length, offset) ==
  fill(mem, n, occ, address, 0, length, offset)

(***************************************************************************)
(* Scalar writers: the value is converted to its fixed-width two's         *)
(* complement representation, least significant byte first, and written.   *)
(***************************************************************************)
ScalarWriters == {"writeUint8", "writeUint16", "writeUint32", "writeUint64",
                  "writeInt8", "writeInt16", "writeInt32", "writeInt64",
                  "writeBigInt64"}

ScalarWidth(op) ==
  CASE op \in {"writeUint8", "writeInt8"} -> 1
    [] op \in {"writeUint16", "writeInt16"} -> 2
    [] op \in {"writeUint32", "writeInt32"} -> 4
    [] OTHER -> 8

RECURSIVE ToBytes(_, _)
ToBytes(value, width) ==
  IF width = 0 THEN <<>>
  ELSE <<value % 256>> \o ToBytes(value \div 256, width - 1)

writeScalar(mem, n, occ, op, address, value, offset) ==
  write(mem, n, occ, address, Buf(ToBytes(value, ScalarWidth(op))), offset)

(***************************************************************************)
(* Name-keyed region I/O.  getVarAddress is an optional number: the empty  *)
(* sequence for null, <<address>> otherwise.                               *)
(***************************************************************************)
getVarAddress(n, name) == IF ~hasVar(n, name) THEN <<>> ELSE <<NameGet(n, name)>>

readVar(mem, n, occ, name, lengthOpt, offset) ==
  IF ~hasVar(n, name) THEN Out("null", <<>>, mem, n, occ)
  ELSE read(mem, n, occ, NameGet(n, name), lengthOpt, offset)

writeVar(mem, n, occ, name, data, offset) ==
  IF ~hasVar(n, name) THEN Out("false", <<>>, mem, n, occ)
  ELSE write(mem, n, occ, NameGet(n, name), data, offset)

copyVarSwapped(mem, n, occ, srcName, destName, length, srcOffset, destOffset) ==
  IF ~hasVar(n, srcName) \/ ~hasVar(n, destName) THEN Out("false", <<>>, mem, n, occ)
  ELSE copy(mem, n, occ, NameGet(n, destName), NameGet(n, srcName), length,
            srcOffset, destOffset)

copyVar(mem, n, occ, srcName, destName, length, srcOffset, destOffset) ==
  IF ~hasVar(n, srcName) \/ ~hasVar(n, destName) THEN Out("false", <<>>, mem, n, occ)
  ELSE copy(mem, n, occ, NameGet(n, srcName), NameGet(n, destName), length,
            srcOffset, destOffset)

fillVar(mem, n, occ, name, value, length, offset) ==
  IF ~hasVar(n, name) THEN Out("false", <<>>, mem, n, occ)
  ELSE fill(mem, n, occ, NameGet(n, name), value, length, offset)

clearVar(mem, n, occ, name, length, offset) ==
  fillVar(mem, n, occ, name, 0, length, offset)

(***************************************************************************)
(* readUint32: read(address, 4, offset) yields a view of four bytes; the   *)
(* value is element 0 of a Uint32Array built over the view's buffer, which *)
(* is the whole block: the constructor throws unless the block length is a *)
(* multiple of 4, and element 0 is made of the first four bytes of the     *)
(* block, least significant byte first.                                    *)
(***************************************************************************)
Uint32OfBytes(b) == b[1] + 256 * b[2] + 65536 * b[3] + 16777216 * b[4]

Uint32ArrayOverBuffer(mem, n, occ, buffer) ==
  IF Len(buffer) % 4 # 0 THEN Out(ErrUint32ArrayLength, <<>>, mem, n, occ)
  ELSE Out("value", <<Uint32OfBytes(buffer)>>, mem, n, occ)

readUint32NoNullCheck(mem, n, occ, address, offset) ==
  LET data == read(mem, n, occ, address, <<4>>, offset)
  IN IF Threw(data.res) THEN data
     ELSE IF data.res = "null"
     THEN Out("TypeError: Cannot read properties of null", <<>>, mem, n, occ)
     ELSE Uint32ArrayOverBuffer(mem, n, occ, mem[address])

readUint32(mem, n, occ, address, offset) ==
  LET data == read(mem, n, occ, address, <<4>>, offset)
  IN IF Threw(data.res) THEN data
     ELSE IF data.res = "null" THEN Out("value", <<0>>, mem, n, occ)
     ELSE Uint32ArrayOverBuffer(mem, n, occ, mem[address])

(***************************************************************************)
(* String codec.  A string is a sequence of UTF-16 code units.  "utf-8"    *)
(* and "latin1" are the encodings of Buffer.from / Buffer.toString.        *)
(***************************************************************************)
IsHigh(u) == u >= 55296 /\ u <= 56319

IsLow(u) == u >= 56320 /\ u <= 57343

Replacement == 65533

Utf8OfCodePoint(cp) ==
  IF cp < 128 THEN <<cp>>
  ELSE IF cp < 2048 THEN <<192 + (cp \div 64), 128 + (cp % 64)>>
  ELSE IF cp < 65536
       THEN <<224 + (cp \div 4096), 128 + ((cp \div 64) % 64), 128 + (cp % 64)>>
  ELSE <<240 + (cp \div 262144), 128 + ((cp \div 4096) % 64),
         128 + ((cp \div 64) % 64), 128 + (cp % 64)>>

RECURSIVE Utf8Encode(_)
Utf8Encode(str) ==
  IF str = <<>> THEN <<>>
  ELSE IF IsHigh(str[1]) /\ Len(str) >= 2 /\ IsLow(str[2])
       THEN Utf8OfCodePoint(65536 + (str[1] - 55296) * 1024 + (str[2] - 56320))
            \o Utf8Encode(Tail(Tail(str)))
  ELSE IF IsHigh(str[1]) \/ IsLow(str[1])
       THEN Utf8OfCodePoint(Replacement) \o Utf8Encode(Tail(str))
  ELSE Utf8OfCodePoint(str[1]) \o Utf8Encode(Tail(str))

Utf16OfCodePoint(cp) ==
  IF cp < 65536 THEN <<cp>>
  ELSE <<55296 + ((cp - 65536) \div 1024), 56320 + ((cp - 65536) % 1024)>>

RECURSIVE Utf8DecodeFrom(_, _, _, _, _, _, _)
Utf8DecodeFrom(b, i, cp, needed, seen, lower, upper) ==
  IF i > Len(b) THEN (IF needed # 0 THEN <<Replacement>> ELSE <<>>)
  ELSE IF needed = 0
  THEN IF b[i] <= 127
       THEN <<b[i]>> \o Utf8DecodeFrom(b, i + 1, 0, 0, 0, 128, 191)
       ELSE IF b[i] >= 194 /\ b[i] <= 223
       THEN Utf8DecodeFrom(b, i + 1, b[i] - 192, 1, 0, 128, 191)
       ELSE IF b[i] >= 224 /\ b[i] <= 239
       THEN Utf8DecodeFrom(b, i + 1, b[i] - 224, 2, 0,
                           IF b[i] = 224 THEN 160 ELSE 128,
                           IF b[i] = 237 THEN 159 ELSE 191)
       ELSE IF b[i] >= 240 /\ b[i] <= 244
       THEN Utf8DecodeFrom(b, i + 1, b[i] - 240, 3, 0,
                           IF b[i] = 240 THEN 144 ELSE 128,
                           IF b[i] = 244 THEN 143 ELSE 191)
       ELSE <<Replacement>> \o Utf8DecodeFrom(b, i + 1, 0, 0, 0, 128, 191)
  ELSE IF b[i] < lower \/ b[i] > upper
  THEN <<Replacement>> \o Utf8DecodeFrom(b, i, 0, 0, 0, 128, 191)
  ELSE IF seen + 1 = needed
  THEN Utf16OfCodePoint(cp * 64 + (b[i] - 128))
       \o Utf8DecodeFrom(b, i + 1, 0, 0, 0, 128, 191)
  ELSE Utf8DecodeFrom(b, i + 1, cp * 64 + (b[i] - 128), needed, seen + 1, 128, 191)

Utf8Decode(bytes) == Utf8DecodeFrom(bytes, 1, 0, 0, 0, 128, 191)

Latin1Encode(str) == [i \in 1..Len(str) |-> str[i] % 256]

Latin1Decode(bytes) == bytes

BufferFrom(str, encoding) ==
  IF encoding = "latin1" THEN Latin1Encode(str) ELSE Utf8Encode(str)

BufferToString(bytes, encoding) ==
  IF encoding = "latin1" THEN Latin1Decode(bytes) ELSE Utf8Decode(bytes)

writeStringByCharCount(mem, n, occ, cap, value, offset, encoding) ==
  LET encodedValue == BufferFrom(value, encoding)
      a == alloc(mem, n, occ, cap, Len(value))
  IN IF Threw(a.res) THEN a
     ELSE LET addr == a.val[1]
              w == write(a.memory, a.names, a.occupied, addr, Buf(encodedValue), offset)
          IN IF Threw(w.res) THEN w
             ELSE IF w.res # "true"
             THEN Out("null", <<>>, w.memory, w.names, w.occupied)
             ELSE Out("value", <<addr>>, w.memory, w.names, w.occupied)

writeString(mem, n, occ, cap, value, offset, encoding) ==
  LET encodedValue == BufferFrom(value, encoding)
      a == alloc(mem, n, occ, cap, Len(encodedValue))
  IN IF Threw(a.res) THEN a
     ELSE LET addr == a.val[1]
              w == write(a.memory, a.names, a.occupied, addr, Buf(encodedValue), offset)
          IN IF Threw(w.res) THEN w
             ELSE IF w.res # "true"
             THEN Out("null", <<>>, w.memory, w.names, w.occupied)
             ELSE Out("value", <<addr>>, w.memory, w.names, w.occupied)

readString(mem, n, occ, address, lengthOpt, offset, encoding) ==
  LET r == read(mem, n, occ, address, lengthOpt, offset)
  IN IF r.res # "value" THEN r
     ELSE Out("value", BufferToString(r.val, encoding), mem, n, occ)

(***************************************************************************)
(* The state machine.  Init is the state after the constructor; every      *)
(* action is one call, recorded in last with its arguments and outcome.    *)
(***************************************************************************)
Capacities == -1..MaxCap

Construct(caps) ==
  /\ capacity \in caps
  /\ memory = EmptyMap
  /\ names = <<>>
  /\ occupiedAddresses = <<>>
  /\ last = [op |-> "new", args |-> <<>>, res |-> "void", val |-> <<>>]
  /\ returned = {}

Init == Construct(Capacities)

InitBig == Construct({BigCap})

Do(op, args, out) ==
  /\ memory' = out.memory
  /\ names' = out.names
  /\ occupiedAddresses' = out.occupied
  /\ last' = [op |-> op, args |-> args, res |-> out.res, val |-> out.val]
  /\ returned' = returned \cup (DOMAIN out.memory \ DOMAIN memory)
  /\ UNCHANGED capacity

Alloc(sz) ==
  Do("alloc", <<sz>>, alloc(memory, names, occupiedAddresses, capacity, sz))

Free(address) ==
  Do("free", <<address>>, free(memory, names, occupiedAddresses, address))

FreeVar(name) ==
  Do("freeVar", <<name>>, freeVar(memory, names, occupiedAddresses, name))

SetVar(name, address) ==
  Do("setVar", <<name, address>>,
     setVar(memory, names, occupiedAddresses, name, address))

Erase ==
  LET out == erase(memory, names, occupiedAddresses)
  IN /\ memory' = out.memory
     /\ names' = out.names
     /\ occupiedAddresses' = out.occupied
     /\ last' = [op |-> "erase", args |-> <<>>, res |-> out.res, val |-> out.val]
     /\ returned' = {}
     /\ UNCHANGED capacity

Read(address, lengthOpt, offset) ==
  Do("read", <<address, lengthOpt, offset>>,
     read(memory, names, occupiedAddresses, address, lengthOpt, offset))

Write(address, data, offset) ==
  Do("write", <<address, data, offset>>,
     write(memory, names, occupiedAddresses, address, data, offset))

Copy(srcAddress, destAddress, length, srcOffset, destOffset) ==
  Do("copy", <<srcAddress, destAddress, length, srcOffset, destOffset>>,
     copy(memory, names, occupiedAddresses, srcAddress, destAddress, length,
          srcOffset, destOffset))

Fill(address, value, length, offset) ==
  Do("fill", <<address, value, length, offset>>,
     fill(memory, names, occupiedAddresses, address, value, length, offset))

Clear(address, length, offset) ==
  Do("clear", <<address, length, offset>>,
     clear(memory, names, occupiedAddresses, address, length, offset))

WriteScalar(op, address, value, offset) ==
  Do(op, <<address, value, offset>>,
     writeScalar(memory, names, occupiedAddresses, op, address, value, offset))

WriteString(value, offset, encoding) ==
  Do("writeString", <<value, offset, encoding>>,
     writeString(memory, names, occupiedAddresses, capacity, value, offset, encoding))

ReadString(address, lengthOpt, offset, encoding) ==
  Do("readString", <<address, lengthOpt, offset, encoding>>,
     readString(memory, names, occupiedAddresses, address, lengthOpt, offset, encoding))

ReadVar(name, lengthOpt, offset) ==
  Do("readVar", <<name, lengthOpt, offset>>,
     readVar(memory, names, occupiedAddresses, name, lengthOpt, offset))

WriteVar(name, data, offset) ==
  Do("writeVar", <<name, data, offset>>,
     writeVar(memory, names, occupiedAddresses, name, data, offset))

CopyVar(srcName, destName, length, srcOffset, destOffset) ==
  Do("copyVar", <<srcName, destName, length, srcOffset, destOffset>>,
     copyVar(memory, names, occupiedAddresses, srcName, destName, length,
             srcOffset, destOffset))

FillVar(name, value, length, offset) ==
  Do("fillVar", <<name, value, length, offset>>,
     fillVar(memory, names, occupiedAddresses, name, value, length, offset))

ClearVar(name, length, offset) ==
  Do("clearVar", <<name, length, offset>>,
     clearVar(memory, names, occupiedAddresses, name, length, offset))

ReadUint32(address, offset) ==
  Do("readUint32", <<address, offset>>,
     readUint32(memory, names, occupiedAddresses, address, offset))

(***************************************************************************)
(* Inputs of the calls.                                                    *)
(***************************************************************************)
RECURSIVE SeqsUpTo(_, _)
SeqsUpTo(S, n) ==
  IF n = 0 THEN {<<>>}
  ELSE LET shorter == SeqsUpTo(S, n - 1)
       IN shorter \cup {Append(q, x) : q \in shorter, x \in S}

AllocSizes == -1..(MaxCap + 1)

Addresses == 0..MaxAddr

VarNames == {"x", "y"}

NotABuffer == [type |-> "Array", bytes |-> <<65>>]

CodeUnits == {65, 233, 55357, 56832}

Strings == SeqsUpTo(CodeUnits, MaxStrLen)

Encodings == {"utf-8", "latin1"}

AllocStep == \E sz \in AllocSizes : Alloc(sz)

FreeStep == \E a \in Addresses : Free(a)

FreeVarStep == \E name \in VarNames : FreeVar(name)

SetVarStep(Ns, As) == \E name \in Ns, a \in As : SetVar(name, a)

ReadStep(As, Ls, Os) == \E a \in As, l \in Ls, o \in Os : Read(a, l, o)

WriteStep(As, Ds, Os) == \E a \in As, d \in Ds, o \in Os : Write(a, d, o)

CopyStep(As, Ls, Os) ==
  \E s \in As, d \in As, l \in Ls, so \in Os, do \in Os : Copy(s, d, l, so, do)

FillStep(As, Vs, Ls, Os) ==
  \E a \in As, v \in Vs, l \in Ls, o \in Os : Fill(a, v, l, o)

ClearStep(As, Ls, Os) == \E a \in As, l \in Ls, o \in Os : Clear(a, l, o)

WriteScalarStep(Ops, As, Vs, Os) ==
  \E op \in Ops, a \in As, v \in Vs, o \in Os : WriteScalar(op, a, v, o)

WriteStringStep(Vs, Os, Es) ==
  \E v \in Vs, o \in Os, e \in Es : WriteString(v, o, e)

ReadStringStep(As, Ls, Os, Es) ==
  \E a \in As, l \in Ls, o \in Os, e \in Es : ReadString(a, l, o, e)

ReadUint32Step(As, Os) == \E a \in As, o \in Os : ReadUint32(a, o)

(***************************************************************************)
(* Spec: every operation of the address space, on a space of any capacity  *)
(* in Capacities.                                                          *)
(***************************************************************************)
Next ==
  \/ AllocStep
  \/ FreeStep
  \/ FreeVarStep
  \/ SetVarStep(VarNames, {0})
  \/ Erase
  \/ ReadStep({0}, {<<>>, <<1>>}, {0})
  \/ WriteStep({0, 1}, {Buf(<<65>>)}, {0, 1})
  \/ CopyStep({0, 1}, {1}, {0})
  \/ FillStep({0}, {321}, {2}, {0})
  \/ ClearStep({0}, {1}, {0})
  \/ WriteScalarStep(ScalarWriters, {1}, {65}, {0})
  \/ WriteStringStep({<<>>, <<65>>}, {0, 1}, {"utf-8"})

Spec == Init /\ [][Next]_vars

(***************************************************************************)
(* SpecAllocFree: sequences of alloc and free only.                        *)
(***************************************************************************)
NextAllocFree == AllocStep \/ FreeStep

SpecAllocFree == Init /\ [][NextAllocFree]_vars

(***************************************************************************)
(* SpecRegion: region I/O and the scalar writers on a space of capacity    *)
(* BigCap, with valid and invalid offsets, lengths and data.               *)
(***************************************************************************)
RegionOffsets == -1..1

RegionLengths == 0..2

RegionData == {Buf(<<>>), Buf(<<65>>), Buf(<<255, 65>>), NotABuffer}

NextRegion ==
  \/ \E sz \in {1, BigCap - 1, BigCap} : Alloc(sz)
  \/ SetVarStep({"x"}, {0})
  \/ ReadStep({0, 1}, {<<>>, <<0>>, <<2>>}, RegionOffsets)
  \/ WriteStep({0, 1}, RegionData, RegionOffsets)
  \/ CopyStep({0, 1}, {1, 2}, {0, 1})
  \/ FillStep({0, 1}, {321}, RegionLengths, RegionOffsets)
  \/ ClearStep({0, 1}, {0, 1}, {0, 1})
  \/ WriteScalarStep(ScalarWriters, {0}, {-1}, {0})

SpecRegion == InitBig /\ [][NextRegion]_vars

(***************************************************************************)
(* SpecString: the string codec over strings of UTF-16 code units, on a    *)
(* space of capacity BigCap.                                               *)
(***************************************************************************)
Latin1Strings == {<<>>, <<233>>, <<55357>>}

NextString ==
  \/ WriteStringStep(Strings, {0}, {"utf-8"})
  \/ WriteStringStep(Latin1Strings, {0}, {"latin1"})
  \/ ReadStringStep({0, 1}, {<<>>, <<1>>}, {0}, Encodings)
  \/ Erase

SpecString == InitBig /\ [][NextString]_vars

(***************************************************************************)
(* SpecVar: the name-keyed operations on a space of capacity BigCap, with  *)
(* names bound to live and to unallocated addresses.                       *)
(***************************************************************************)
ReadVarStep(Ns, Ls, Os) == \E name \in Ns, l \in Ls, o \in Os : ReadVar(name, l, o)

WriteVarStep(Ns, Ds, Os) == \E name \in Ns, d \in Ds, o \in Os : WriteVar(name, d, o)

CopyVarStep(Ns, Ls, Os) ==
  \E s \in Ns, d \in Ns, l \in Ls, so \in Os, do \in Os : CopyVar(s, d, l, so, do)

FillVarStep(Ns, Vs, Ls, Os) ==
  \E name \in Ns, v \in Vs, l \in Ls, o \in Os : FillVar(name, v, l, o)

ClearVarStep(Ns, Ls, Os) == \E name \in Ns, l \in Ls, o \in Os : ClearVar(name, l, o)

NextVar ==
  \/ Alloc(2)
  \/ SetVarStep(VarNames, {0, 1})
  \/ ReadVarStep(VarNames, {<<>>, <<1>>}, {0, 1})
  \/ WriteVarStep(VarNames, {Buf(<<255, 65>>), NotABuffer}, {0, 1})
  \/ CopyVarStep(VarNames, {1}, {0, 1})
  \/ FillVarStep(VarNames, {321}, {0, 1}, {0})
  \/ ClearVarStep(VarNames, {2}, {-1, 0})

SpecVar == InitBig /\ [][NextVar]_vars

(***************************************************************************)
(* SpecNames: alloc, free, setVar, freeVar and erase with three names that *)
(* may share an address or be bound to an unallocated one.                 *)
(***************************************************************************)
InitNames == Construct({MaxCap})

NextNames ==
  \/ \E sz \in {1, 2} : Alloc(sz)
  \/ FreeStep
  \/ \E name \in VarNames \cup {"z"} : FreeVar(name)
  \/ SetVarStep(VarNames \cup {"z"}, {0, 1})
  \/ Erase

SpecNames == InitNames /\ [][NextNames]_vars

(***************************************************************************)
(* SpecUint32: writeUint32 and readUint32 on a space of capacity Uint32Cap *)
(* with blocks of 4, 5 and 8 bytes.  The values written have every byte    *)
(* below 128, so any four stored bytes decode to less than 2^31.           *)
(***************************************************************************)
InitUint32 == Construct({Uint32Cap})

Uint32Values == {1, 16909060}

NextUint32 ==
  \/ \E sz \in {4, 5, 8} : Alloc(sz)
  \/ WriteScalarStep({"writeUint32"}, {0, 1}, Uint32Values, {0, 1, 4})
  \/ ReadUint32Step({0, 1}, {-1, 0, 1, 4, 5, 8})
  \/ Erase

SpecUint32 == InitUint32 /\ [][NextUint32]_vars

(***************************************************************************)
(* C1: on a space constructed with a non-negative capacity, the sum of the *)
(* lengths of all live blocks never exceeds the capacity, whatever calls   *)
(* were made and whether they succeeded or failed.                         *)
(***************************************************************************)
C1_OccupiedWithinCapacity ==
  capacity >= 0 => byteLength(memory) <= capacity

C1_Witness ==
  /\ capacity > 0
  /\ byteLength(memory) = capacity
  /\ size(memory) >= 2
  /\ last.op = "alloc"
  /\ last.res = ErrAllocCapacity

(***************************************************************************)
(* C2: a successful alloc(n) returns an address s that is live afterwards, *)
(* whose block has length n and only zero bytes; the number of blocks      *)
(* grows by one and every block that was live keeps its length and bytes.  *)
(* alloc(n) succeeds whenever n > 0 and live bytes + n <= capacity.        *)
(***************************************************************************)
C2_AllocInsertsZeroedBlock ==
  [][last'.op = "alloc" =>
       /\ (last'.args[1] > 0 /\ byteLength(memory) + last'.args[1] <= capacity)
            => last'.res = "value"
       /\ last'.res = "value" =>
            /\ has(memory', last'.val[1])
            /\ Len(memory'[last'.val[1]]) = last'.args[1]
            /\ \A i \in 1..last'.args[1] : memory'[last'.val[1]][i] = 0
            /\ size(memory') = size(memory) + 1
            /\ \A a \in DOMAIN memory :
                 has(memory', a) /\ memory'[a] = memory[a]]_vars

C2_Witness ==
  /\ last.op = "alloc"
  /\ last.res = "value"
  /\ last.args[1] = 2
  /\ \E a \in DOMAIN memory : a # last.val[1] /\ memory[a] = <<65>>

(***************************************************************************)
(* C3: alloc(size) throws the size error whenever size <= 0; otherwise it  *)
(* throws the capacity error exactly when live bytes + size > capacity and *)
(* succeeds in every other case; a failing alloc leaves the block map and  *)
(* the name table unchanged.                                               *)
(***************************************************************************)
C3_AllocErrors ==
  [][last'.op = "alloc" =>
       /\ last'.args[1] <= 0 => last'.res = ErrAllocSize
       /\ last'.args[1] > 0 =>
            /\ last'.res = ErrAllocCapacity
                 <=> byteLength(memory) + last'.args[1] > capacity
            /\ last'.res \in {ErrAllocCapacity, "value"}
       /\ last'.res # "value" => memory' = memory /\ names' = names]_vars

C3_Witness ==
  /\ last.op = "alloc"
  /\ last.res = ErrAllocCapacity
  /\ capacity >= 0
  /\ last.args[1] = capacity + 1
  /\ memory = EmptyMap
  /\ names # <<>>

(***************************************************************************)
(* C4: the address chosen by alloc (called directly or by writeString) is  *)
(* the smallest integer k, not below the number of live blocks before the  *)
(* call, that is not a live address.                                       *)
(***************************************************************************)
LeastFreeFromCount(mem) ==
  CHOOSE k \in size(mem)..(2 * size(mem)) :
    /\ ~has(mem, k)
    /\ \A j \in size(mem)..(k - 1) : has(mem, j)

C4_AllocAddressRule ==
  [][(last'.op \in {"alloc", "writeString"} /\ DOMAIN memory' # DOMAIN memory) =>
       /\ DOMAIN memory' = DOMAIN memory \cup {LeastFreeFromCount(memory)}
       /\ last'.res = "value" => last'.val = <<LeastFreeFromCount(memory)>>]_vars

C4_Witness ==
  /\ last.op = "writeString"
  /\ last.res = "value"
  /\ last.val = <<2>>
  /\ DOMAIN memory = {1, 2}

(***************************************************************************)
(* C5, as claimed: over alloc and free calls, every address alloc returns  *)
(* differs from every address an earlier alloc returned, freed or not.     *)
(***************************************************************************)
C5_NeverReturnedBefore ==
  [][(last'.op = "alloc" /\ last'.res = "value") => last'.val[1] \notin returned]_vars

(***************************************************************************)
(* C5, amended: every address alloc returns differs from every address     *)
(* that is live at the call, and alloc may return an address that was      *)
(* returned before and has been freed since.                               *)
(***************************************************************************)
C5_NotLiveAtCall ==
  [][(last'.op = "alloc" /\ last'.res = "value") =>
       ~has(memory, last'.val[1])]_vars

C5_Witness ==
  /\ last.op = "alloc"
  /\ last.res = "value"
  /\ size(memory) >= 2
  /\ last.val[1] > size(memory) - 1
  /\ returned # DOMAIN memory

(***************************************************************************)
(* C6: free(a) on a live address returns true and a is not live after it;  *)
(* free(a) on an address that is not live returns false, throws nothing    *)
(* and changes neither the block map nor the name table; so a second       *)
(* free(a) right after a successful one returns false.                     *)
(***************************************************************************)
C6_FreeOnce ==
  [][last'.op = "free" =>
       /\ has(memory, last'.args[1]) =>
            last'.res = "true" /\ ~has(memory', last'.args[1])
       /\ ~has(memory, last'.args[1]) =>
            last'.res = "false" /\ memory' = memory /\ names' = names
       /\ (last.op = "free" /\ last.res = "true" /\ last.args = last'.args) =>
            last'.res = "false"]_vars

C6_Witness ==
  /\ last.op = "free"
  /\ last.res = "false"
  /\ last.args[1] \in returned
  /\ memory # EmptyMap
  /\ names # <<>>

(***************************************************************************)
(* C7: a successful write, fill, clear, copy or scalar write changes only  *)
(* the bytes of the target region [offset, offset + length) of the         *)
(* destination block; the live addresses, every block length, the bytes    *)
(* outside the region, every other block and the name table are unchanged. *)
(***************************************************************************)
RegionWriters == {"write", "fill", "clear", "copy"} \cup ScalarWriters

TargetAddress(call) == IF call.op = "copy" THEN call.args[2] ELSE call.args[1]

TargetOffset(call) ==
  CASE call.op = "fill" -> call.args[4]
    [] call.op = "copy" -> call.args[5]
    [] OTHER -> call.args[3]

TargetLength(call) ==
  CASE call.op = "write" -> Len(call.args[2].bytes)
    [] call.op = "fill" -> call.args[3]
    [] call.op = "clear" -> call.args[2]
    [] call.op = "copy" -> call.args[3]
    [] OTHER -> ScalarWidth(call.op)

C7_RegionWriteFrame ==
  [][(last'.op \in RegionWriters /\ last'.res = "true") =>
       /\ DOMAIN memory' = DOMAIN memory
       /\ names' = names
       /\ \A b \in DOMAIN memory :
            /\ Len(memory'[b]) = Len(memory[b])
            /\ b # TargetAddress(last') => memory'[b] = memory[b]
       /\ \A i \in 1..Len(memory[TargetAddress(last')]) :
            (i <= TargetOffset(last') \/ i > TargetOffset(last') + TargetLength(last'))
              => memory'[TargetAddress(last')][i] = memory[TargetAddress(last')][i]]_vars

C7_Witness ==
  /\ last.op = "fill"
  /\ last.res = "true"
  /\ last.args = <<0, 321, 1, 1>>
  /\ names # <<>>
  /\ has(memory, 1)
  /\ memory[1] # Zeros(Len(memory[1]))
  /\ memory[0] = <<255, 65, 255>>

(***************************************************************************)
(* C8: every name bound in the name table is bound to a live address.      *)
(***************************************************************************)
C8_NamesBoundToLive ==
  \A i \in 1..Len(names) : has(memory, names[i].address)

(***************************************************************************)
(* C9, as claimed: on a live block of length L, write(a, d, 0) with a byte *)
(* buffer d of any length up to L succeeds, and read(a, len(d), 0) right   *)
(* after it returns d.                                                     *)
(***************************************************************************)
WriteThenReadAgrees ==
  /\ last.res = "true"
  /\ LET r == read(memory, names, occupiedAddresses, last.args[1],
                   <<Len(last.args[2].bytes)>>, 0)
     IN r.res = "value" /\ r.val = last.args[2].bytes

WriteAtZeroWithin(minLen) ==
  /\ last.op = "write"
  /\ IsUint8Array(last.args[2])
  /\ last.args[3] = 0
  /\ has(memory, last.args[1])
  /\ Len(last.args[2].bytes) >= minLen
  /\ Len(last.args[2].bytes) <= Len(memory[last.args[1]])

C9_RoundTripAnyLength == WriteAtZeroWithin(0) => WriteThenReadAgrees

(***************************************************************************)
(* C9, amended: the round trip holds for every byte buffer d with          *)
(* 1 <= len(d) <= L; an empty buffer makes write throw a range error.      *)
(***************************************************************************)
C9_RoundTripNonEmpty == WriteAtZeroWithin(1) => WriteThenReadAgrees

C9_Witness ==
  /\ WriteAtZeroWithin(1)
  /\ last.args[2].bytes = <<255, 65>>
  /\ Len(memory[last.args[1]]) = 3
  /\ memory[last.args[1]][3] # 0

(***************************************************************************)
(* C10, as claimed: for any string v and one encoding on both sides, when  *)
(* capacity allows, writeString(space, v) returns an address a and         *)
(* readString(space, a, len(encodedBytes(v))) returns v.                   *)
(***************************************************************************)
StringReadBack ==
  /\ last.res = "value"
  /\ LET r == readString(memory, names, occupiedAddresses, last.val[1],
                         <<Len(BufferFrom(last.args[1], last.args[3]))>>, 0,
                         last.args[3])
     IN r.res = "value" /\ r.val = last.args[1]

WroteStringWithRoom ==
  /\ last.op = "writeString"
  /\ last.args[2] = 0
  /\ last.res # ErrAllocCapacity

C10_StringRoundTripAny == WroteStringWithRoom => StringReadBack

(***************************************************************************)
(* C10, amended: the round trip holds for every non-empty string that the  *)
(* encoding represents without loss: for utf-8 a string with no unpaired   *)
(* surrogate code unit, for latin1 a string of code units up to 255.       *)
(***************************************************************************)
RECURSIVE WellFormed(_)
WellFormed(str) ==
  IF str = <<>> THEN TRUE
  ELSE IF IsHigh(str[1])
       THEN Len(str) >= 2 /\ IsLow(str[2]) /\ WellFormed(Tail(Tail(str)))
  ELSE ~IsLow(str[1]) /\ WellFormed(Tail(str))

Lossless(str, encoding) ==
  IF encoding = "latin1" THEN \A i \in 1..Len(str) : str[i] <= 255
  ELSE WellFormed(str)

C10_StringRoundTripLossless ==
  (/\ WroteStringWithRoom
   /\ last.args[1] # <<>>
   /\ Lossless(last.args[1], last.args[3])) => StringReadBack

C10_Witness ==
  /\ WroteStringWithRoom
  /\ last.res = "value"
  /\ last.args[1] = <<55357, 56832>>
  /\ last.args[3] = "utf-8"
  /\ memory[last.val[1]] = <<240, 159, 152, 128>>

(***************************************************************************)
(* C11: after a successful writeUint32(a, v, offset), which needs a live   *)
(* block of length L >= 4 and offset + 4 <= L, readUint32(a, offset)       *)
(* returns v.                                                              *)
(***************************************************************************)
C11_Uint32RoundTrip ==
  (last.op = "writeUint32" /\ last.res = "true") =>
    LET r == readUint32(memory, names, occupiedAddresses, last.args[1], last.args[3])
    IN r.res = "value" /\ r.val = <<last.args[2]>>

(***************************************************************************)
(* C18, as claimed: readUint32(address, offset) returns 0 and throws       *)
(* nothing whenever the 4-byte read yields no data: when the address is    *)
(* not live, and when [offset, offset + 4) is out of the block's bounds.   *)
(***************************************************************************)
ReadUint32HasNoData ==
  \/ ~has(memory, last'.args[1])
  \/ last'.args[2] < 0
  \/ last'.args[2] >= Len(memory[last'.args[1]])
  \/ last'.args[2] + 4 > Len(memory[last'.args[1]])

C18_ZeroOnAnyFailedRead ==
  [][(last'.op = "readUint32" /\ ReadUint32HasNoData) =>
       last'.res = "value" /\ last'.val = <<0>>]_vars

(***************************************************************************)
(* C18, amended: readUint32 returns 0 and throws nothing when the address  *)
(* is not live; when the address is live and [offset, offset + 4) is out   *)
(* of the block's bounds it throws the range error of read; in both cases  *)
(* the state is unchanged.                                                 *)
(***************************************************************************)
C18_ZeroOnlyWhenNotLive ==
  [][(last'.op = "readUint32" /\ ReadUint32HasNoData) =>
       /\ memory' = memory /\ names' = names
       /\ IF ~has(memory, last'.args[1])
          THEN last'.res = "value" /\ last'.val = <<0>>
          ELSE last'.res \in {ErrReadOffset, ErrReadLength}]_vars

C18_Witness ==
  /\ last.op = "readUint32"
  /\ last.res = "value"
  /\ last.val = <<0>>
  /\ ~has(memory, last.args[1])
  /\ last.args[2] = -1
  /\ \E a \in DOMAIN memory : memory[a][1] # 0

(***************************************************************************)
(* C12: a successful copy(a, a, length, srcOffset, destOffset) whose       *)
(* source and destination ranges overlap leaves every byte of the block    *)
(* outside [destOffset, destOffset + length) unchanged, and afterwards the *)
(* bytes of the destination range are the bytes the source range held      *)
(* before the call.                                                        *)
(***************************************************************************)
RangesOverlap(call) ==
  /\ call.args[4] < call.args[5] + call.args[3]
  /\ call.args[5] < call.args[4] + call.args[3]

C12_OverlappingCopy ==
  [][(/\ last'.op = "copy"
      /\ last'.res = "true"
      /\ last'.args[1] = last'.args[2]
      /\ RangesOverlap(last')) =>
       LET a == last'.args[1]
           length == last'.args[3]
           srcOffset == last'.args[4]
           destOffset == last'.args[5]
       IN /\ Len(memory'[a]) = Len(memory[a])
          /\ \A i \in 1..Len(memory[a]) :
               memory'[a][i] =
                 IF i > destOffset /\ i <= destOffset + length
                 THEN memory[a][i - destOffset + srcOffset]
                 ELSE memory[a][i]]_vars

C12_Witness ==
  /\ last.op = "copy"
  /\ last.res = "true"
  /\ last.args = <<0, 0, 2, 0, 1>>
  /\ memory[0][1] = memory[0][2]
  /\ memory[0][3] # memory[0][2]
  /\ memory[0][2] # 0

(***************************************************************************)
(* C13: erase() never fails, and right after it size() = 0,                *)
(* byteLength() = 0, no address is live and no name that was bound before  *)
(* the call is bound.                                                      *)
(***************************************************************************)
C13_EraseEmpties ==
  [][last'.op = "erase" =>
       /\ last'.res = "void"
       /\ size(memory') = 0
       /\ byteLength(memory') = 0
       /\ \A a \in Addresses \cup DOMAIN memory : ~has(memory', a)
       /\ \A name \in BoundNames(names) : ~hasVar(names', name)]_vars

C13_Witness ==
  /\ last.op = "erase"
  /\ last.res = "void"
  /\ capacity = MaxCap
  /\ size(memory) = 0
  /\ \A name \in VarNames : ~hasVar(names, name)

(***************************************************************************)
(* C14: every operation that fails, by throwing an error or by returning   *)
(* false or null, writeString with a nonzero offset included, leaves the   *)
(* blocks and the name table exactly as they were before the call.         *)
(***************************************************************************)
Failed(call) == Threw(call.res) \/ call.res \in {"false", "null"}

C14_FailureLeavesState ==
  [][Failed(last') => memory' = memory /\ names' = names]_vars

(***************************************************************************)
(* C15: read, write, fill and clear on an address that is not live, and    *)
(* copy when its source or its destination is not live, return the         *)
(* sentinel (null for read, false for the others), throw nothing whatever  *)
(* the other arguments are, and leave the state unchanged.                 *)
(***************************************************************************)
NotLiveTarget(call) ==
  \/ call.op \in {"read", "write", "fill", "clear"} /\ ~has(memory, call.args[1])
  \/ call.op = "copy" /\ (~has(memory, call.args[1]) \/ ~has(memory, call.args[2]))

C15_NotLiveGivesSentinel ==
  [][NotLiveTarget(last') =>
       /\ last'.res = IF last'.op = "read" THEN "null" ELSE "false"
       /\ last'.val = <<>>
       /\ memory' = memory
       /\ names' = names]_vars

C15_Witness ==
  /\ last.op = "write"
  /\ last.args = <<1, NotABuffer, -1>>
  /\ last.res = "false"
  /\ has(memory, 0)
  /\ ~has(memory, 1)

(***************************************************************************)
(* C16: on live blocks, read with a given length, write of a byte buffer,  *)
(* fill and clear succeed exactly when 0 <= offset < L, length >= 1 and    *)
(* offset + length <= L, where L is the length of the block; copy succeeds *)
(* exactly when (srcOffset, length) passes that test on the source block   *)
(* and (destOffset, length) passes it on the destination block.  Otherwise *)
(* the call throws a range error, returns no bytes and modifies no byte.   *)
(***************************************************************************)
RangeErrors ==
  {ErrReadOffset, ErrReadLength, ErrWriteOffset, ErrWriteLength,
   ErrCopySrcOffset, ErrCopyDestOffset, ErrCopyLength, ErrFillOffset, ErrFillLength}

InBounds(offset, length, blockLength) ==
  0 <= offset /\ offset < blockLength /\ length >= 1 /\ offset + length <= blockLength

RegionCallOnLive(call) ==
  \/ call.op = "read" /\ has(memory, call.args[1]) /\ call.args[2] # <<>>
  \/ call.op = "write" /\ has(memory, call.args[1]) /\ IsUint8Array(call.args[2])
  \/ call.op \in {"fill", "clear"} /\ has(memory, call.args[1])
  \/ call.op = "copy" /\ has(memory, call.args[1]) /\ has(memory, call.args[2])

RegionCallInBounds(call) ==
  CASE call.op = "read" ->
         InBounds(call.args[3], call.args[2][1], Len(memory[call.args[1]]))
    [] call.op = "copy" ->
         /\ InBounds(call.args[4], call.args[3], Len(memory[call.args[1]]))
         /\ InBounds(call.args[5], call.args[3], Len(memory[call.args[2]]))
    [] OTHER ->
         InBounds(TargetOffset(call), TargetLength(call), Len(memory[call.args[1]]))

C16_SucceedsExactlyInBounds ==
  [][RegionCallOnLive(last') =>
       IF RegionCallInBounds(last')
       THEN last'.res = IF last'.op = "read" THEN "value" ELSE "true"
       ELSE /\ last'.res \in RangeErrors
            /\ last'.val = <<>>
            /\ memory' = memory]_vars

C16_Witness ==
  /\ last.op = "fill"
  /\ last.res = "true"
  /\ last.args = <<0, 321, 2, 1>>
  /\ Len(memory[0]) = 3

(***************************************************************************)
(* C17: readVar, writeVar, fillVar, clearVar and copyVar return null       *)
(* (readVar) or false and change nothing when a name they are given is     *)
(* unbound; when every name is bound they return what read, write, fill,   *)
(* clear and copy return on getVarAddress of each name, and leave the      *)
(* state those leave.                                                      *)
(***************************************************************************)
VarOps == {"readVar", "writeVar", "fillVar", "clearVar", "copyVar"}

NamesOf(call) ==
  IF call.op = "copyVar" THEN {call.args[1], call.args[2]} ELSE {call.args[1]}

AddressKeyed(call) ==
  LET a == getVarAddress(names, call.args[1])[1]
  IN CASE call.op = "readVar" ->
            read(memory, names, occupiedAddresses, a, call.args[2], call.args[3])
       [] call.op = "writeVar" ->
            write(memory, names, occupiedAddresses, a, call.args[2], call.args[3])
       [] call.op = "fillVar" ->
            fill(memory, names, occupiedAddresses, a, call.args[2], call.args[3],
                 call.args[4])
       [] call.op = "clearVar" ->
            clear(memory, names, occupiedAddresses, a, call.args[2], call.args[3])
       [] call.op = "copyVar" ->
            copy(memory, names, occupiedAddresses, a,
                 getVarAddress(names, call.args[2])[1],
                 call.args[3], call.args[4], call.args[5])

C17_VarOpsDelegate ==
  [][last'.op \in VarOps =>
       IF \E name \in NamesOf(last') : getVarAddress(names, name) = <<>>
       THEN /\ last'.res = IF last'.op = "readVar" THEN "null" ELSE "false"
            /\ memory' = memory
            /\ names' = names
       ELSE /\ last'.res = AddressKeyed(last').res
            /\ last'.val = AddressKeyed(last').val
            /\ memory' = AddressKeyed(last').memory
            /\ names' = AddressKeyed(last').names]_vars

C17_Witness ==
  /\ last.op = "copyVar"
  /\ last.res = "true"
  /\ last.args = <<"x", "y", 1, 0, 1>>
  /\ getVarAddress(names, "x") = <<1>>
  /\ getVarAddress(names, "y") = <<0>>
  /\ memory[0] = <<0, 255>>
  /\ memory[1] = <<255, 65>>

(***************************************************************************)
(* C19: a successful free(a) removes block a and leaves every other block  *)
(* as it was; it removes exactly one binding whose address is a when there *)
(* is one, none otherwise, and leaves every other binding, other names     *)
(* bound to a included, as it was.                                         *)
(***************************************************************************)
BoundTo(n, address) == {i \in 1..Len(n) : n[i].address = address}

C19_FreeRemovesOneBinding ==
  [][(last'.op = "free" /\ last'.res = "true") =>
       LET a == last'.args[1]
       IN /\ DOMAIN memory' = DOMAIN memory \ {a}
          /\ \A b \in DOMAIN memory' : memory'[b] = memory[b]
          /\ IF BoundTo(names, a) = {} THEN names' = names
             ELSE \E i \in BoundTo(names, a) : names' = RemoveAt(names, i)]_vars

C19_Witness ==
  /\ last.op = "free"
  /\ last.res = "true"
  /\ last.args = <<0>>
  /\ Len(names) = 2
  /\ names[1].address = 1
  /\ names[2].address = 0
  /\ has(memory, 1)

(***************************************************************************)
(* C20: whenever freeVar(name) returns true, right afterwards name is not  *)
(* bound and the address it was bound to is not live; whenever it returns  *)
(* false, the blocks and the name table are unchanged.                     *)
(***************************************************************************)
C20_FreeVarUnbinds ==
  [][last'.op = "freeVar" =>
       /\ last'.res = "true" =>
            /\ ~hasVar(names', last'.args[1])
            /\ ~has(memory', NameGet(names, last'.args[1]))
       /\ last'.res = "false" => memory' = memory /\ names' = names]_vars

====
